---- MODULE Spec2Model ----
(***************************************************************************)
(* Model of package cache (src/pkg/cache/cache.go): a concurrent LRU cache *)
(* with a fixed number of hash buckets, one global recency list and one    *)
(* TTL timer per record, all guarded by the mutex c.m.                      *)
(*                                                                         *)
(* Records live in an arena whose slot for a record is named by the key    *)
(* the record was allocated for; `below` pointers, bucket heads and the    *)
(* elements of the recency list are slot handles (NULL = nil).  A slot     *)
(* that is reachable from no bucket chain and from no list element is      *)
(* garbage and is reset to FreeRec (Go's collector).                       *)
(*                                                                         *)
(* Time is abstracted: an armed timer may fire at any later moment, which  *)
(* covers every ttl.  A timer that has fired has started its callback      *)
(* goroutine; Timer.Stop cancels an armed timer and has no effect on a     *)
(* fired one, whose callback still runs deleteWithLock(i, key).            *)
(***************************************************************************)
EXTENDS Integers, Sequences, FiniteSets, TLC

\* MaxCacheSize of cache.go:16 (5 there, documented range 1..10000), scaled
\* down so that the reachable states can be enumerated.
MaxCacheSize == 2
\* number of distinct values a caller stores
NumVals == 2
\* most timer callbacks that have fired and not yet run, at any one time
MaxPending == 1

NumKeys == MaxCacheSize + 1
Keys == 1 .. NumKeys
Vals == 1 .. NumVals
Buckets == 0 .. (MaxCacheSize - 1)
\* maphash.MakeSeed(): the seeds the model draws from.  Seed 1 spreads the
\* keys over the buckets (keys 1 and NumKeys share bucket 0), seed NumKeys
\* sends every key to bucket 0.
Seeds == {1, NumKeys}

NULL == 0
ZeroVal == 0
\* stands for 2^64 - 1, the value a uint64 takes when 0 is decremented
WrapMax == 2^30 - 1

FreeRec == [key |-> 0, val |-> ZeroVal, below |-> NULL, t |-> "none"]
NoStale == [k \in Keys |-> [same |-> 0, old |-> 0]]
Idle == [op |-> "idle", key |-> 0, val |-> ZeroVal, found |-> FALSE, kase |-> "none"]

VARIABLES
    m,        \* c.m: "unlocked" or the operation holding the lock
    size,     \* c.size
    seed,     \* c.seed
    lru,      \* c.lru: record handles, front first
    data,     \* c.data: bucket -> handle of the chain's root
    recs,     \* the records: handle -> [key, val, below, t]
    stale,    \* fired callbacks whose timer is no longer a record's r.t
    call,     \* the operation inside the critical section and its result
    touched,  \* history: live keys by last successful Get/Set, newest first
    seen,     \* history: the keys ever Set, and the Set that was the latest
              \* caller operation while its ttl has not elapsed
    ref       \* the reference map: [key, val] pairs, most recent first

vars == <<m, size, seed, lru, data, recs, stale, call, touched, seen, ref>>

----
\* container/list operations used by the cache, on a sequence of handles

Without(s, x) == SelectSeq(s, LAMBDA y : y # x)
InSeq(s, x) == \E j \in 1 .. Len(s) : s[j] = x
PushFront(s, x) == <<x>> \o s
MoveToFront(s, x) == IF InSeq(s, x) THEN <<x>> \o Without(s, x) ELSE s
Remove(s, x) == Without(s, x)
Back(s) == IF s = <<>> THEN NULL ELSE s[Len(s)]

LastOf(s) == IF s = <<>> THEN NULL ELSE s[Len(s)]
FirstOf(s) == IF s = <<>> THEN NULL ELSE s[1]

----
maphashString(sd, s) == (s - 1) \div sd

hash(s) == maphashString(seed, s) % MaxCacheSize

Inc64(n) == IF n = WrapMax THEN 0 ELSE n + 1
Dec64(n) == IF n = 0 THEN WrapMax ELSE n - 1

\* the loop of lookup, stopping at the last record of the chain instead of
\* after it
RECURSIVE walkLast(_, _, _, _, _)
walkLast(h, rec, above, key, fuel) ==
    IF rec = NULL \/ fuel = 0 \/ h[rec].key = key \/ h[rec].below = NULL
    THEN [rec |-> rec, above |-> above]
    ELSE walkLast(h, h[rec].below, rec, key, fuel - 1)

\* the loop of lookup: follow below until the key matches or the chain ends
RECURSIVE walk(_, _, _, _, _)
walk(h, rec, above, key, fuel) ==
    IF rec = NULL \/ fuel = 0 \/ h[rec].key = key
    THEN [rec |-> IF fuel = 0 THEN NULL ELSE rec, above |-> above]
    ELSE walk(h, h[rec].below, rec, key, fuel - 1)

lookup(d, h, i, key) ==
    LET w == walk(h, d[i], NULL, key, NumKeys + 1)
    IN  [rec |-> w.rec, above |-> w.above, root |-> d[i]]

\* handles reachable from the bucket heads
RECURSIVE chainOf(_, _, _)
chainOf(h, r, fuel) ==
    IF r = NULL \/ fuel = 0 THEN <<>> ELSE <<r>> \o chainOf(h, h[r].below, fuel - 1)

Chain(d, h, i) == chainOf(h, d[i], NumKeys + 1)

Range(s) == {s[j] : j \in 1 .. Len(s)}

Reachable(d, h, l) == Range(l) \cup UNION {Range(Chain(d, h, i)) : i \in Buckets}

collect(d, h, l) ==
    LET R == Reachable(d, h, l)
    IN  [r \in Keys |-> IF r \in R THEN h[r] ELSE FreeRec]

\* a bring-to-top that does not put the old chain below the record
toTopNoRelink(c, i, l) ==
    IF l.rec # l.root
    THEN [c EXCEPT !.recs = [c.recs EXCEPT ![l.above].below = c.recs[l.rec].below],
                   !.data = [c.data EXCEPT ![i] = l.rec]]
    ELSE c

\* "Bring r to the top" of Get and Set
toTop(c, i, l) ==
    IF l.rec # l.root
    THEN [c EXCEPT !.recs = [c.recs EXCEPT ![l.above].below = c.recs[l.rec].below,
                                           ![l.rec].below = l.root],
                   !.data = [c.data EXCEPT ![i] = l.rec]]
    ELSE c

\* a hit that leaves the recency list alone
promoteNot(c, r) == c

\* c.lru.MoveToFront(r.e)
promote(c, r) == [c EXCEPT !.lru = MoveToFront(@, r)]

\* r.t.Stop() when the record stays: a fired callback keeps running
stopForReset(c, r) ==
    IF c.recs[r].t = "fired"
    THEN [c EXCEPT !.stale[c.recs[r].key].same = @ + 1]
    ELSE c

\* r.t.Stop() when the record goes: every callback armed for this key now
\* belongs to a removed record
stopForDelete(c, r) ==
    LET k == c.recs[r].key
        n == c.stale[k].same + (IF c.recs[r].t = "fired" THEN 1 ELSE 0)
    IN  [c EXCEPT !.stale[k] = [same |-> 0, old |-> @.old + n]]

\* delete with c.size-- ahead of the check for a missing record
deleteCountFirst(c, idx, key) ==
    LET l == lookup(c.data, c.recs, idx, key)
        r == l.rec
    IN  IF r = NULL THEN [c EXCEPT !.size = Dec64(@)]
        ELSE LET c1 == stopForDelete(c, r)
                 c2 == IF r = l.root
                       THEN [c1 EXCEPT !.data[idx] = c1.recs[r].below]
                       ELSE [c1 EXCEPT !.recs[l.above].below = c1.recs[r].below]
             IN  [c2 EXCEPT !.lru = Remove(c2.lru, r), !.size = Dec64(c2.size)]

\* delete that unlinks every record as if it were the head of its chain
deleteAsRoot(c, idx, key) ==
    LET l == lookup(c.data, c.recs, idx, key)
        r == l.rec
    IN  IF r = NULL THEN c
        ELSE LET c1 == stopForDelete(c, r)
                 c2 == [c1 EXCEPT !.data[idx] = c1.recs[r].below]
             IN  [c2 EXCEPT !.lru = Remove(c2.lru, r), !.size = Dec64(c2.size)]

\* delete that leaves the element of the record in the recency list
deleteNoRemove(c, idx, key) ==
    LET l == lookup(c.data, c.recs, idx, key)
        r == l.rec
    IN  IF r = NULL THEN c
        ELSE LET c1 == stopForDelete(c, r)
                 c2 == IF r = l.root
                       THEN [c1 EXCEPT !.data[idx] = c1.recs[r].below]
                       ELSE [c1 EXCEPT !.recs[l.above].below = c1.recs[r].below]
             IN  [c2 EXCEPT !.size = Dec64(c2.size)]

delete(c, idx, key) ==
    LET l == lookup(c.data, c.recs, idx, key)
        r == l.rec
    IN  IF r = NULL THEN c
        ELSE LET c1 == stopForDelete(c, r)
                 c2 == IF r = l.root
                       THEN [c1 EXCEPT !.data[idx] = c1.recs[r].below]
                       ELSE [c1 EXCEPT !.recs[l.above].below = c1.recs[r].below]
             IN  [c2 EXCEPT !.lru = Remove(c2.lru, r), !.size = Dec64(c2.size)]

cache == [size |-> size, lru |-> lru, data |-> data, recs |-> recs, stale |-> stale]

\* the keys found by lookup in their own bucket
Present(d, h) == {k \in Keys : lookup(d, h, hash(k), k).rec # NULL}

RECURSIVE staleUpTo(_, _)
staleUpTo(st, n) == IF n = 0 THEN 0 ELSE st[n].same + st[n].old + staleUpTo(st, n - 1)

\* callbacks that have fired and have not run yet
Pending == Cardinality({k \in Keys : recs[k].t = "fired"}) + staleUpTo(stale, NumKeys)

NoSet == [key |-> 0, val |-> ZeroVal]
NoneSeen == [last |-> NoSet, ever |-> {}]

\* order of the last successful touches, kept for the keys still present:
\* a hit of k puts k first, a removal drops the keys lookup no longer finds
retouch(hit, k, removal, c) ==
    LET kept == IF removal
                THEN SelectSeq(touched, LAMBDA y : lookup(c.data, c.recs, hash(y), y).rec # NULL)
                ELSE touched
    IN  IF hit THEN <<k>> \o Without(kept, k) ELSE kept

\* the fields of c become the next state; after a removal the records that
\* are no longer referenced are collected
Commit(c, removal) ==
    /\ size' = c.size
    /\ lru' = c.lru
    /\ data' = c.data
    /\ recs' = IF removal THEN collect(c.data, c.recs, c.lru) ELSE c.recs
    /\ stale' = c.stale

\* an operation that goes on without c.m.Lock(): the mutex stays as it is
acquireNot(mm, op) == mm

\* c.m.Lock() by operation op: the mutex as the operation goes on, held for
\* op once it was free; the operation stays blocked while it is not
acquire(mm, op) == IF mm = "unlocked" THEN op ELSE "blocked"

\* mustBeLocked: c.m.TryLock() fails, so that no panic follows
mustBeLocked(mm) == mm # "unlocked"

\* panic("the code must be executed within a cache transaction")
Panic(key) ==
    /\ call' = [Idle EXCEPT !.op = "panic", !.key = key]
    /\ UNCHANGED <<size, lru, data, recs, stale, touched>>

----
Init ==
    /\ m = "unlocked"
    /\ size = 0
    /\ seed \in Seeds
    /\ lru = <<>>
    /\ data = [i \in Buckets |-> NULL]
    /\ recs = [r \in Keys |-> FreeRec]
    /\ stale = NoStale
    /\ call = Idle
    /\ touched = <<>>
    /\ seen = NoneSeen
    /\ ref = <<>>

Get(key) ==
    /\ acquire(m, "Get") # "blocked"
    /\ LET i == hash(key)
           l == lookup(data, recs, i, key)
           r == l.rec
       IN  IF ~mustBeLocked(acquire(m, "Get")) THEN Panic(key)
           ELSE IF r # NULL
           THEN LET c1 == toTop(cache, i, l)
                    c2 == promote(c1, r)
                IN  /\ Commit(c2, FALSE)
                    /\ call' = [op |-> "Get", key |-> key, val |-> recs[r].val,
                                found |-> TRUE, kase |-> "hit"]
                    /\ touched' = retouch(TRUE, key, FALSE, c2)
           ELSE /\ UNCHANGED <<size, lru, data, recs, stale, touched>>
                /\ call' = [op |-> "Get", key |-> key, val |-> ZeroVal,
                            found |-> FALSE, kase |-> "miss"]
    /\ m' = acquire(m, "Get")
    /\ UNCHANGED seed

\* a new record that forgets the chain it is put on top of
insertNoBelow(c, i, key, value, root) ==
    [c EXCEPT !.recs[key] = [key |-> key, val |-> value, below |-> NULL, t |-> "armed"],
              !.lru = PushFront(@, key),
              !.data[i] = key,
              !.size = Inc64(@)]

\* the default case of Set: a new record on top of its bucket
insert(c, i, key, value, root) ==
    [c EXCEPT !.recs[key] = [key |-> key, val |-> value, below |-> root, t |-> "armed"],
              !.lru = PushFront(@, key),
              !.data[i] = key,
              !.size = Inc64(@)]

\* a reset that stops the old timer and arms no new one
resetNoTimer(c, i, l, value) ==
    LET r == l.rec
        c1 == stopForReset(c, r)
        c2 == [c1 EXCEPT !.recs[r].val = value, !.recs[r].t = "none"]
        c3 == toTop(c2, i, l)
    IN  promote(c3, r)

\* the reset case of Set
reset(c, i, l, value) ==
    LET r == l.rec
        c1 == stopForReset(c, r)
        c2 == [c1 EXCEPT !.recs[r].val = value, !.recs[r].t = "armed"]
        c3 == toTop(c2, i, l)
    IN  promote(c3, r)

\* an eviction that takes the front of the recency list
evictFront(c, l) ==
    LET er == FirstOf(c.lru)
    IN  IF er = NULL THEN c ELSE delete(c, hash(c.recs[er].key), c.recs[er].key)

\* the evict case of Set: the record at the back of the list is deleted (the
\* list of a full cache is not empty)
evict(c, l) ==
    LET er == Back(c.lru)
    IN  IF er = NULL THEN c ELSE delete(c, hash(c.recs[er].key), c.recs[er].key)

\* an eviction that keeps root as it was read before the victim left
evictRootStale(c, l) == l.root

\* the root the new record is put on after the eviction
evictRoot(c, l) ==
    LET er == Back(c.lru)
    IN  IF er # NULL /\ er = l.root THEN c.recs[l.root].below ELSE l.root

\* a switch that never evicts
setCaseNoEvict(l, sz) == IF l.rec # NULL THEN "reset" ELSE "insert"

\* a switch that looks at the size before it looks for the key
setCaseFullFirst(l, sz) ==
    IF sz = MaxCacheSize THEN "evict"
    ELSE IF l.rec # NULL THEN "reset" ELSE "insert"

\* the switch of Set
setCase(l, sz) ==
    IF l.rec # NULL THEN "reset"
    ELSE IF sz = MaxCacheSize THEN "evict" ELSE "insert"

Set(key, value) ==
    /\ acquire(m, "Set") # "blocked"
    /\ LET i == hash(key)
           l == lookup(data, recs, i, key)
           kase == setCase(l, size)
           c1 == CASE kase = "reset" -> reset(cache, i, l, value)
                   [] kase = "evict" -> insert(evict(cache, l), i, key, value, evictRoot(cache, l))
                   [] OTHER -> insert(cache, i, key, value, l.root)
       IN  IF ~mustBeLocked(acquire(m, "Set")) THEN Panic(key)
           ELSE /\ Commit(c1, kase = "evict")
                /\ call' = [op |-> "Set", key |-> key, val |-> value,
                            found |-> l.rec # NULL, kase |-> kase]
                /\ touched' = retouch(TRUE, key, kase = "evict", c1)
    /\ m' = acquire(m, "Set")
    /\ UNCHANGED seed

\* the runtime fires the timer of a record: its callback goroutine starts and
\* will take the lock.  A timer that fires while the lock is held is a timer
\* that fires right before the holder locked (it is stopped too late) or right
\* after it unlocks (its callback waits for the lock), so firing is modelled
\* with the lock free.
TimerFire(key) ==
    /\ m = "unlocked"
    /\ recs[key].t = "armed"
    /\ Pending < MaxPending
    /\ recs' = [recs EXCEPT ![key].t = "fired"]
    /\ UNCHANGED <<m, size, seed, lru, data, stale, call, touched>>

\* the callback of a fired timer: the timer the record still holds ("own"),
\* an earlier timer of the record now stored ("same"), or a timer of a record
\* that was removed ("old")
taken(c, key, which) ==
    CASE which = "own" -> [c EXCEPT !.recs[key].t = "running"]
      [] which = "same" -> [c EXCEPT !.stale[key].same = @ - 1]
      [] OTHER -> [c EXCEPT !.stale[key].old = @ - 1]

deleteWithLock(key, which) ==
    /\ acquire(m, "deleteWithLock") # "blocked"
    /\ CASE which = "own" -> recs[key].t = "fired"
         [] which = "same" -> stale[key].same > 0
         [] OTHER -> stale[key].old > 0
    /\ LET idx == hash(key)
           c1 == delete(taken(cache, key, which), idx, key)
       IN  IF ~mustBeLocked(acquire(m, "deleteWithLock")) THEN Panic(key)
           ELSE /\ Commit(c1, TRUE)
                /\ call' = [op |-> "deleteWithLock", key |-> key, val |-> ZeroVal,
                            found |-> lookup(data, recs, idx, key).rec # NULL,
                            kase |-> which]
                /\ touched' = retouch(FALSE, key, TRUE, c1)
    /\ m' = acquire(m, "deleteWithLock")
    /\ UNCHANGED seed

\* the deferred Unlock left out of deleteWithLock
UnlockCallersOnly ==
    /\ m \in {"Get", "Set"}
    /\ m' = "unlocked"
    /\ call' = Idle
    /\ UNCHANGED <<size, seed, lru, data, recs, stale, touched>>

\* defer c.m.Unlock(): the operation returns
Unlock ==
    /\ m # "unlocked"
    /\ m' = "unlocked"
    /\ call' = Idle
    /\ UNCHANGED <<size, seed, lru, data, recs, stale, touched>>

GetStep(key) == Get(key) /\ UNCHANGED <<seen, ref>>
SetStep(key, value) == Set(key, value) /\ UNCHANGED <<seen, ref>>
FireStep(key) == TimerFire(key) /\ UNCHANGED <<seen, ref>>
CallbackStep(key, which) == deleteWithLock(key, which) /\ UNCHANGED <<seen, ref>>
UnlockStep == Unlock /\ UNCHANGED <<seen, ref>>

Whiches == {"own", "same", "old"}

Next ==
    \/ \E key \in Keys : GetStep(key)
    \/ \E key \in Keys, value \in Vals : SetStep(key, value)
    \/ \E key \in Keys : FireStep(key)
    \/ \E key \in Keys, which \in Whiches : CallbackStep(key, which)
    \/ UnlockStep

Spec == Init /\ [][Next]_vars

\* The same program with the history of the caller operations recorded in seen.
SetSeen(key, value) ==
    /\ Set(key, value)
    /\ seen' = [last |-> [key |-> key, val |-> value], ever |-> seen.ever \cup {key}]
    /\ UNCHANGED ref

FireSeen(key) ==
    /\ TimerFire(key)
    /\ seen' = [seen EXCEPT !.last = IF @.key = key THEN NoSet ELSE @]
    /\ UNCHANGED ref

UnlockSeen ==
    /\ Unlock
    /\ seen' = [seen EXCEPT !.last = IF m = "Get" THEN NoSet ELSE @]
    /\ UNCHANGED ref

NextSetGet ==
    \/ \E key \in Keys : GetStep(key)
    \/ \E key \in Keys, value \in Vals : SetSeen(key, value)
    \/ \E key \in Keys : FireSeen(key)
    \/ \E key \in Keys, which \in Whiches : CallbackStep(key, which)
    \/ UnlockSeen

SpecSetGet == Init /\ [][NextSetGet]_vars

\* The reference map: one sequence of (key, value) pairs in order of recency,
\* at most MaxCacheSize long.
refKeys(s) == {s[j].key : j \in 1 .. Len(s)}
refDrop(s, key) == SelectSeq(s, LAMBDA e : e.key # key)
refValue(s, key) == (CHOOSE e \in Range(s) : e.key = key).val

\* Get: a stored key becomes the most recent
refGet(s, key) ==
    IF key \in refKeys(s)
    THEN <<[key |-> key, val |-> refValue(s, key)]>> \o refDrop(s, key)
    ELSE s

\* Set: the pair becomes the most recent; a new key in a full map pushes
\* the least recent pair out
refSet(s, key, value) ==
    LET e == [key |-> key, val |-> value]
    IN  IF key \in refKeys(s) THEN <<e>> \o refDrop(s, key)
        ELSE IF Len(s) = MaxCacheSize THEN <<e>> \o SubSeq(s, 1, Len(s) - 1)
        ELSE <<e>> \o s

\* expiry: the callback of a timer of key removes the pair of key
refExpire(s, key) == refDrop(s, key)

\* The program and the reference map taking the same steps.
GetRef(key) == Get(key) /\ ref' = refGet(ref, key) /\ UNCHANGED seen
SetRef(key, value) == Set(key, value) /\ ref' = refSet(ref, key, value) /\ UNCHANGED seen
CallbackRef(key, which) ==
    deleteWithLock(key, which) /\ ref' = refExpire(ref, key) /\ UNCHANGED seen

NextRefine ==
    \/ \E key \in Keys : GetRef(key)
    \/ \E key \in Keys, value \in Vals : SetRef(key, value)
    \/ \E key \in Keys : FireStep(key)
    \/ \E key \in Keys, which \in Whiches : CallbackRef(key, which)
    \/ UnlockStep

SpecRefine == Init /\ [][NextRefine]_vars

\* Timers fire and their callbacks get the lock: the runtime runs the timers
\* that are due, and sync.Mutex hands the lock to a goroutine that has waited
\* long (starvation mode), so the callbacks are not overtaken for ever.
\* The steps in which a callback takes the lock: a step of Next from a free
\* lock to m = "deleteWithLock" is a CallbackStep, and one is possible exactly
\* when the lock is free and a fired callback has not run.
CallbackRuns == m = "unlocked" /\ Pending > 0 /\ m' = "deleteWithLock"

Fairness ==
    /\ SF_vars(\E key \in Keys : FireStep(key))
    /\ SF_m(CallbackRuns)
    /\ WF_vars(UnlockStep)

\* the callbacks that wait for the mutex on behalf of key
PendingFor(key) == recs[key].t = "fired" \/ stale[key].same > 0 \/ stale[key].old > 0

\* a callback waiting on behalf of key takes the mutex
CallbackRunsFor(key) ==
    /\ m = "unlocked"
    /\ PendingFor(key)
    /\ m' = "deleteWithLock"
    /\ call' \in [op : {"deleteWithLock"}, key : {key}, val : {ZeroVal},
                  found : BOOLEAN, kase : Whiches]

\* sync.Mutex hands the lock to a goroutine that has waited long enough
\* (starvation mode), so each waiting callback gets the mutex; a holder
\* reaches its deferred Unlock
FairnessEach ==
    /\ \A key \in Keys : SF_<<m, call>>(CallbackRunsFor(key))
    /\ WF_vars(UnlockStep)

\* "value"+n of the tests: the value the writers store under key n
valueOf(key) == ((key - 1) % NumVals) + 1

\* TestCache_ConcurrentSetAndExpire: writers Set keys to their values, in any
\* number and order and on any keys, while timers fire and readers Get.
ExpireSet(key) == SetStep(key, valueOf(key))

NextExpire ==
    \/ \E key \in Keys : GetStep(key)
    \/ \E key \in Keys : ExpireSet(key)
    \/ \E key \in Keys : FireStep(key)
    \/ \E key \in Keys, which \in Whiches : CallbackStep(key, which)
    \/ UnlockStep

SpecExpire == Init /\ [][NextExpire]_vars /\ Fairness

\* the same steps, with every waiting callback served
SpecLive == Init /\ [][NextExpire]_vars /\ FairnessEach

\* TestCache_ConcurrentSetAndGet: at most MaxCacheSize writers, each Setting a
\* key of its own to that key's value, and readers; no ttl elapses.

WriterSet(key) ==
    /\ key \notin seen.ever
    /\ Cardinality(seen.ever) < MaxCacheSize
    /\ SetSeen(key, valueOf(key))

NextWriters ==
    \/ \E key \in Keys : WriterSet(key)
    \/ \E key \in Keys : GetStep(key)
    \/ UnlockSeen

SpecWriters == Init /\ [][NextWriters]_vars

----
\* State functions the properties are stated with

KeysOf(s) == [j \in 1 .. Len(s) |-> recs[s[j]].key]

\* the keys of the records in the bucket chains
Stored == UNION {Range(KeysOf(Chain(data, recs, i))) : i \in Buckets}

\* the keys Get would find, and the value it would return
PresentKeys == Present(data, recs)
ValAt(k) == recs[lookup(data, recs, hash(k), k).rec].val

TypeOK ==
    /\ m \in {"unlocked", "Get", "Set", "deleteWithLock"}
    /\ size \in 0 .. WrapMax
    /\ seed \in Seeds
    /\ data \in [Buckets -> Keys \cup {NULL}]

\* a caller operation or a callback takes the lock and runs its body
Enters(op) == m = "unlocked" /\ m' = op

----
\* C1: in every reachable state the live-entry counter is within
\* 0 .. MaxCacheSize: it never exceeds the capacity and never wraps below 0.
C1_SizeWithinCapacity == size \in 0 .. MaxCacheSize

\* an evicting Set has just run in a full cache
C1_Witness == m = "Set" /\ call.kase = "evict" /\ size = MaxCacheSize

\* C2: a Set of an absent key into a full cache removes exactly one key, the
\* least recently touched one of the whole cache, keeps the value of every
\* other key, stores the new key, and leaves the cache full.
C2_EvictsLeastRecent ==
    [][(Enters("Set") /\ call'.key \notin PresentKeys /\ size = MaxCacheSize) =>
         LET victim == LastOf(touched)
             after == Present(data', recs')
         IN  /\ victim \in PresentKeys
             /\ after = (PresentKeys \ {victim}) \cup {call'.key}
             /\ \A k \in PresentKeys \ {victim} :
                    recs'[lookup(data', recs', hash(k), k).rec].val = ValAt(k)
             /\ recs'[lookup(data', recs', hash(call'.key), call'.key).rec].val = call'.val
             /\ size' = MaxCacheSize]_vars

\* an evicting Set has just run and the cache holds MaxCacheSize keys
C2_Witness ==
    /\ m = "Set" /\ call.kase = "evict"
    /\ Cardinality(PresentKeys) = MaxCacheSize
    /\ call.key \in PresentKeys

\* C3: once a Set has refreshed a key, the callback of a timer armed by an
\* earlier Set of that record does not remove it while its newest timer has
\* not fired.
C3_StaleTimerSparesRefreshed ==
    [][(Enters("deleteWithLock") /\ call'.kase = "same" /\ recs[call'.key].t = "armed") =>
         call'.key \in Present(data', recs')]_vars

\* C4: a Get that is the next caller operation after Set(k, v), before the
\* timer of that Set has fired, returns (v, true); a Get of a key that was
\* never Set returns found = false.
C4_SetThenGet ==
    m = "Get" =>
        /\ seen.last.key = call.key => (call.found /\ call.val = seen.last.val)
        /\ call.key \notin seen.ever => ~call.found

\* the cache holds no key, no record and no list element
Empty ==
    /\ size = 0
    /\ lru = <<>>
    /\ \A i \in Buckets : data[i] = NULL
    /\ PresentKeys = {}

\* C5: if from some point on no Set occurs, then with timers firing and their
\* callbacks getting the lock the cache eventually is and stays empty.
C5_ExpiryComplete == ([]<>(m = "Set")) \/ <>[]Empty

\* a callback has just removed the last record: the cache is empty again
C5_Witness ==
    /\ m = "deleteWithLock" /\ call.found
    /\ Empty

\* C6: a timer callback for a key that is stored in no chain changes neither
\* size nor the buckets, the records or the recency list.
C6_AbsentCallbackNoop ==
    [][(Enters("deleteWithLock") /\ call'.key \notin Stored) =>
         UNCHANGED <<size, data, recs, lru>>]_vars

\* a callback has just run for a key that was gone, with other keys stored
C6_Witness == m = "deleteWithLock" /\ ~call.found /\ size > 0

\* C7: with at most MaxCacheSize writers Setting distinct keys into an empty
\* cache and no ttl elapsed, every key written stays stored with its value
\* and a Get of it returns (that value, true).
C7_WritersAllKept ==
    /\ \A k \in seen.ever : k \in PresentKeys /\ ValAt(k) = valueOf(k)
    /\ (m = "Get" /\ call.key \in seen.ever) =>
           (call.found /\ call.val = valueOf(call.key))
    /\ m = "Set" => call.kase = "insert"

\* MaxCacheSize writers are done and a reader has its key's value
C7_Witness ==
    /\ Cardinality(seen.ever) = MaxCacheSize
    /\ m = "Get" /\ call.found /\ call.val = valueOf(call.key)

\* C8: the recency list, front to back, lists the present keys by their
\* last successful Get or Set, newest first; and the key touched last is not
\* the one an evicting Set removes.
C8_RecencyOrder ==
    /\ [](KeysOf(lru) = touched)
    /\ [][(Enters("Set") /\ call'.kase = "evict") =>
            FirstOf(touched) \in Present(data', recs')]_vars

\* a Get has just hit a key of a full cache that has another record below it
\* in its chain, and the key is now the front of the list
C8_Witness ==
    /\ m = "Get" /\ call.found
    /\ size = MaxCacheSize
    /\ FirstOf(KeysOf(lru)) = call.key
    /\ recs[call.key].below # NULL

\* C9: a Set of a present key replaces its value and leaves size and the set
\* of present keys as they were, also in a full cache.
C9_ResetKeepsKeys ==
    [][(Enters("Set") /\ call'.key \in Stored) =>
         /\ size' = size
         /\ Present(data', recs') = PresentKeys
         /\ recs'[lookup(data', recs', hash(call'.key), call'.key).rec].val = call'.val
         /\ \A k \in PresentKeys \ {call'.key} :
                recs'[lookup(data', recs', hash(k), k).rec].val = ValAt(k)]_vars

\* a Set has just refreshed a key of a full cache with another value
C9_Witness ==
    /\ m = "Set" /\ call.kase = "reset"
    /\ size = MaxCacheSize
    /\ ValAt(call.key) = call.val

\* C10: a Get of a key that is stored in no chain returns found = false and
\* leaves size, the buckets, the records with their timers, the recency list
\* and the fired callbacks as they were.
C10_GetMissNoEffect ==
    [][(Enters("Get") /\ call'.key \notin Stored) =>
         /\ ~call'.found
         /\ call'.val = ZeroVal
         /\ UNCHANGED <<size, data, recs, lru, stale>>]_vars

\* a Get has just missed in a bucket that holds other keys
C10_Witness ==
    /\ m = "Get" /\ ~call.found
    /\ data[hash(call.key)] # NULL

----
\* the fields the mutex guards: bucket array, chains, recency list, size
Guarded == <<size, lru, data, [k \in Keys |-> [key |-> recs[k].key, val |-> recs[k].val,
                                              below |-> recs[k].below]]>>

\* C11: Get, Set and the timer callbacks read and write the bucket array, the
\* recency list and the size counter only in the critical section they
\* themselves opened by taking the free mutex, and mustBeLocked never panics.
C11_LockHeld ==
    /\ [](call.op # "panic")
    /\ [][(call' # call /\ call'.op # "idle") =>
            (m = "unlocked" /\ m' = call'.op /\ call'.op # "panic")]_vars
    /\ [][Guarded' # Guarded => (m = "unlocked" /\ m' = call'.op)]_vars

\* a timer callback has fired and waits while a Set holds the mutex
C11_Witness == m = "Set" /\ call.op = "Set" /\ Pending > 0

----
\* the records of the chains of buckets 0 .. n-1, bucket after bucket
RECURSIVE chainsUpTo(_, _, _)
chainsUpTo(d, h, n) ==
    IF n = 0 THEN <<>> ELSE chainsUpTo(d, h, n - 1) \o Chain(d, h, n - 1)

\* every record reachable from the bucket array
Records == chainsUpTo(data, recs, MaxCacheSize)

Count(s, x) == Cardinality({j \in 1 .. Len(s) : s[j] = x})

\* C12: the number of records reachable from the bucket chains, the length
\* of the recency list and size are equal, every chain record is the value
\* of exactly one recency-list element, and every element holds exactly one
\* chain record.
C12_ChainsListSizeAgree ==
    LET rs == Records
    IN  /\ Len(rs) = Len(lru)
        /\ Len(lru) = size
        /\ \A r \in Range(rs) : Count(lru, r) = 1
        /\ \A r \in Range(lru) : Count(rs, r) = 1

\* a callback has removed one record and others stay
C12_Witness == m = "deleteWithLock" /\ call.found /\ size > 0 /\ Len(Records) = size

----
\* C13: the bucket chains are well formed: every key occurs at most once
\* over all chains, every record lies in the chain of bucket hash(key), no
\* chain runs into a cycle, and no removed record (one whose element has
\* left the recency list) can be reached; this includes the state after an
\* evicting Set whose victim lay in the bucket of the new key.
C13_ChainsWellFormed ==
    /\ LET ks == KeysOf(Records)
       IN  \A k \in Keys : Count(ks, k) <= 1
    /\ \A i \in Buckets :
          LET ch == Chain(data, recs, i)
          IN  /\ \A r \in Range(ch) : Count(ch, r) = 1
              /\ \A r \in Range(ch) :
                    /\ recs[r].key \in Keys
                    /\ hash(recs[r].key) = i
                    /\ InSeq(lru, r)

\* an evicting Set has put its key on top of the bucket whose only record,
\* the head, was the victim (with seed 1 key 1 shares its bucket with the
\* last key only)
C13_Witness ==
    /\ m = "Set" /\ call.kase = "evict" /\ seed = 1
    /\ call.key # 1 /\ hash(call.key) = hash(1)
    /\ 1 \notin PresentKeys
    /\ data[hash(call.key)] = call.key /\ recs[call.key].below = NULL
    /\ size = MaxCacheSize

----
\* C14 as stated: with the lock free every live record owns one armed timer
\* that has not fired, and no timer or pending callback is left for a key
\* or record that is no longer stored.
C14_OneArmedTimerEach ==
    m = "unlocked" =>
        /\ \A k \in PresentKeys : recs[k].t = "armed"
        /\ \A k \in Keys : stale[k].old = 0
        /\ \A k \in Keys \ PresentKeys : recs[k].t = "none"

\* C14: with the lock free every live record owns exactly one current
\* timer, which is armed or has fired with its callback not yet run, and a
\* record that is not stored owns none; a callback is pending for a removed
\* record only when its timer had fired before the removal stopped it.
C14_OneTimerEach ==
    /\ [](m = "unlocked" =>
            \A k \in Keys : IF k \in PresentKeys
                            THEN recs[k].t \in {"armed", "fired"}
                            ELSE recs[k].t = "none")
    /\ [][\A k \in Keys :
            stale'[k].old > stale[k].old =>
                /\ recs[k].t = "fired" \/ stale[k].same > 0
                /\ recs'[k].t = "none"
                /\ m' \in {"Set", "deleteWithLock"}]_vars

\* the lock is free, a live record has its timer armed, and the callback of
\* a removed record is still pending
C14_Witness ==
    /\ m = "unlocked"
    /\ \E k \in PresentKeys : recs[k].t = "armed"
    /\ \E k \in Keys \ PresentKeys : stale[k].old > 0

----
\* C15: once a key has been removed and inserted again, the callback of a
\* timer armed for the removed record does not remove the new record, whose
\* own timer is still armed.
C15_OldTimerSparesReinserted ==
    [][(Enters("deleteWithLock") /\ call'.kase = "old" /\ recs[call'.key].t = "armed")
          => call'.key \in Present(data', recs')]_vars

----
\* C16: delete(idx, key) for a key that is present removes exactly that key:
\* size goes down by exactly 1, the key is no longer found, and every other
\* key keeps its value, its bucket with its place in the chain, and its
\* place relative to the others in the recency list, whether the removed
\* record was the head of its chain or further down.
C16_DeleteRemovesOne ==
    [][(Enters("deleteWithLock") /\ lookup(data, recs, hash(call'.key), call'.key).rec # NULL) =>
          LET k == call'.key
              r == lookup(data, recs, hash(k), k).rec
          IN  /\ size' = size - 1
              /\ lookup(data', recs', hash(k), k).rec = NULL
              /\ Present(data', recs') = PresentKeys \ {k}
              /\ \A i \in Buckets :
                    Chain(data', recs', i) = Without(Chain(data, recs, i), r)
              /\ lru' = Without(lru, r)
              /\ \A q \in Range(lru') :
                    recs'[q].key = recs[q].key /\ recs'[q].val = recs[q].val]_vars

\* a callback has removed the record of its key from a bucket that still
\* holds other records
C16_Witness ==
    /\ m = "deleteWithLock" /\ call.found /\ call.kase = "own"
    /\ data[hash(call.key)] # NULL
    /\ call.key \notin PresentKeys

----
\* C17: the cache never deadlocks: whoever holds the mutex releases it, and
\* every timer callback waiting for the mutex gets it and runs (so that the
\* mutex is free again and again for the callers of Get and Set), also when
\* a Set or a delete has stopped the timer whose callback is waiting.
C17_NoDeadlock ==
    /\ (m # "unlocked") ~> (m = "unlocked")
    /\ \A key \in Keys :
          PendingFor(key) ~> (m = "deleteWithLock" /\ call.key = key)

\* a Set has reset the timer of a record after that timer fired: the
\* callback of the stopped timer waits for the mutex the Set holds
C17_Witness == m = "Set" /\ call.kase = "reset" /\ stale[call.key].same > 0

----
\* C18: a Get that hits key k changes only the position of k, which becomes
\* the head of its chain and the front of the recency list: size, the live
\* keys, every value, the records of every bucket, the order of the other
\* records in chains and recency list, and every timer, the one of k
\* included, stay as they were (Get does not extend the ttl).
C18_GetHitFrame ==
    [][(Enters("Get") /\ lookup(data, recs, hash(call'.key), call'.key).rec # NULL) =>
          LET k == call'.key
              r == lookup(data, recs, hash(k), k).rec
          IN  /\ call'.found /\ call'.val = recs[r].val
              /\ size' = size
              /\ \A q \in Keys :
                    /\ recs'[q].key = recs[q].key
                    /\ recs'[q].val = recs[q].val
                    /\ recs'[q].t = recs[q].t
              /\ stale' = stale
              /\ \A i \in Buckets :
                    LET old == Chain(data, recs, i)
                        new == Chain(data', recs', i)
                    IN  Range(new) = Range(old) /\ Without(new, r) = Without(old, r)
              /\ data'[hash(k)] = r
              /\ Without(lru', r) = Without(lru, r)
              /\ Len(lru') = Len(lru)
              /\ FirstOf(lru') = r]_vars

\* a Get has hit a record whose timer has fired: the record is on top of a
\* chain with other records and its callback is still waiting
C18_Witness ==
    /\ m = "Get" /\ call.found
    /\ recs[call.key].t = "fired"
    /\ data[hash(call.key)] = call.key
    /\ recs[call.key].below # NULL

----
\* C19: the bucket chains refine a bounded LRU map: after every sequence of
\* Set, Get and timer-expiry steps the live keys are the keys of the
\* reference sequence of at most MaxCacheSize pairs, and every Get returns
\* what the reference map returns, whatever the seed makes of the buckets.
C19_RefinesLruMap ==
    /\ Len(ref) <= MaxCacheSize
    /\ refKeys(ref) = PresentKeys
    /\ m = "Get" =>
          IF call.found
          THEN ref # <<>> /\ ref[1] = [key |-> call.key, val |-> call.val]
          ELSE call.key \notin refKeys(ref)

\* all keys collide in bucket 0, the map is full, and a Get has hit: the
\* record is the head of the one chain and the first pair of the reference
C19_Witness ==
    /\ seed = NumKeys
    /\ m = "Get" /\ call.found
    /\ Len(ref) = MaxCacheSize
    /\ Len(Chain(data, recs, 0)) = MaxCacheSize
====
